---- MODULE Spec2Model ----
(***************************************************************************)
(* Model of generate_tfvars_interactive.py: the interactive generator of   *)
(* terraform.tfvars files for BigQuery dataset configuration.              *)
(*                                                                         *)
(* Representation of Python values:                                        *)
(*   - a str is the sequence of its code points, e.g. <<97, 32, 98>> for   *)
(*     "a b"; Chars turns a literal of the source into that form;          *)
(*   - a dict whose iteration order the code relies on (.items()), or      *)
(*     whose keys are data, is a sequence of [k |-> key, v |-> value] in   *)
(*     insertion order;                                                    *)
(*   - a dict with the fixed keys of a schema, which is only subscripted / *)
(*     tested with "in" / .get, is a function whose DOMAIN is the set of   *)
(*     keys present, the keys written as TLA+ strings;                     *)
(*   - a list is a sequence; an int is an integer.                         *)
(***************************************************************************)
EXTENDS Integers, Sequences, FiniteSets, TLC

VARIABLES
    pc,                      \* position of the running program
    config,                  \* main: config; render: the argument config
    client_name,             \* main: client_name
    client_key,              \* main: client_key
    global_filters,          \* main / resolver: global_filters
    col_idx,                 \* collect_global_filter_values: loop position
    dataset_key,             \* main: dataset_key (last one entered)
    output_datasets_config,  \* main: output_datasets_config
    source_datasets_config,  \* main: source_datasets_config
    content,                 \* main: content
    n_extra,                 \* number of additional output datasets added
    entered,                 \* history: the output datasets entered, in order:
                             \* key, months_back, and the months line as typed
    table_name,              \* resolver call: table_name
    filter_columns,          \* resolver call: the returned list
    result                   \* renderer call: [raised, text]

vars == <<pc, config, client_name, client_key, global_filters, col_idx,
          dataset_key, output_datasets_config, source_datasets_config,
          content, n_extra, entered, table_name, filter_columns, result>>

-----------------------------------------------------------------------------
(* Bounds of the model.                                                    *)

\* additional output datasets a run may add
MaxExtra == 2
\* longest value list of a global filter drawn for a resolver call
MaxVals == 2

-----------------------------------------------------------------------------
(* Literals of the source as strs.                                         *)

\* The printable ASCII characters from " " (32) to "_" (95) and from "a"
\* (97) to "~" (126), in the order of their code points.
AsciiFrom32 ==
    " !\"#$%&'()*+,-./0123456789:;<=>?@ABCDEFGHIJKLMNOPQRSTUVWXYZ[\\]^_"

AsciiFrom97 == "abcdefghijklmnopqrstuvwxyz{|}~"

\* The code point of each character a literal of the source is written with.
CodePoint ==
    [c \in {SubSeq(AsciiFrom32, i, i) : i \in 1..Len(AsciiFrom32)}
           \cup {SubSeq(AsciiFrom97, i, i) : i \in 1..Len(AsciiFrom97)}
           \cup {"\n"} |->
        IF c = "\n" THEN 10
        ELSE IF \E i \in 1..Len(AsciiFrom32) : SubSeq(AsciiFrom32, i, i) = c
        THEN 31 + (CHOOSE i \in 1..Len(AsciiFrom32) :
                       SubSeq(AsciiFrom32, i, i) = c)
        ELSE 96 + (CHOOSE i \in 1..Len(AsciiFrom97) :
                       SubSeq(AsciiFrom97, i, i) = c)]

\* The str a string literal of the source denotes.
Chars(literal) == [i \in 1..Len(literal) |-> CodePoint[SubSeq(literal, i, i)]]

-----------------------------------------------------------------------------
(* Character data of the Python runtime (Unicode 14.0.0), as sorted tables *)
(* of rows that start with the first code point they cover.                *)

\* Index of the last row among 1..hi whose first code point is at most c,
\* given that the rows 1..lo are such rows; 0 if there is none.
RECURSIVE RowAtOrBefore(_, _, _, _)
RowAtOrBefore(table, c, lo, hi) ==
    IF lo = hi THEN lo
    ELSE LET mid == (lo + hi + 1) \div 2
         IN  IF table[mid][1] <= c
             THEN RowAtOrBefore(table, c, mid, hi)
             ELSE RowAtOrBefore(table, c, lo, mid - 1)

Row(table, c) == RowAtOrBefore(table, c, 0, Len(table))

\* c lies in a row <<first, last>> of the table.
InRanges(table, c) ==
    LET i == Row(table, c) IN i > 0 /\ c <= table[i][2]

\* Lower-case mapping of one code point to one code point: each row
\* <<first, last, step, delta>> maps first, first + step, ..., last to
\* itself plus delta.  A code point of no row is its own lower case.
LowerRuns ==
    << <<65, 90, 1, 32>>, <<192, 214, 1, 32>>, <<216, 222, 1, 32>>,
       <<256, 302, 2, 1>>, <<306, 310, 2, 1>>, <<313, 327, 2, 1>>,
       <<330, 374, 2, 1>>, <<376, 376, 1, -121>>, <<377, 381, 2, 1>>,
       <<385, 385, 1, 210>>, <<386, 388, 2, 1>>, <<390, 390, 1, 206>>,
       <<391, 391, 1, 1>>, <<393, 394, 1, 205>>, <<395, 395, 1, 1>>,
       <<398, 398, 1, 79>>, <<399, 399, 1, 202>>, <<400, 400, 1, 203>>,
       <<401, 401, 1, 1>>, <<403, 403, 1, 205>>, <<404, 404, 1, 207>>,
       <<406, 406, 1, 211>>, <<407, 407, 1, 209>>, <<408, 408, 1, 1>>,
       <<412, 412, 1, 211>>, <<413, 413, 1, 213>>, <<415, 415, 1, 214>>,
       <<416, 420, 2, 1>>, <<422, 422, 1, 218>>, <<423, 423, 1, 1>>,
       <<425, 425, 1, 218>>, <<428, 428, 1, 1>>, <<430, 430, 1, 218>>,
       <<431, 431, 1, 1>>, <<433, 434, 1, 217>>, <<435, 437, 2, 1>>,
       <<439, 439, 1, 219>>, <<440, 440, 1, 1>>, <<444, 444, 1, 1>>,
       <<452, 452, 1, 2>>, <<453, 453, 1, 1>>, <<455, 455, 1, 2>>,
       <<456, 456, 1, 1>>, <<458, 458, 1, 2>>, <<459, 475, 2, 1>>,
       <<478, 494, 2, 1>>, <<497, 497, 1, 2>>, <<498, 500, 2, 1>>,
       <<502, 502, 1, -97>>, <<503, 503, 1, -56>>, <<504, 542, 2, 1>>,
       <<544, 544, 1, -130>>, <<546, 562, 2, 1>>, <<570, 570, 1, 10795>>,
       <<571, 571, 1, 1>>, <<573, 573, 1, -163>>, <<574, 574, 1, 10792>>,
       <<577, 577, 1, 1>>, <<579, 579, 1, -195>>, <<580, 580, 1, 69>>,
       <<581, 581, 1, 71>>, <<582, 590, 2, 1>>, <<880, 882, 2, 1>>,
       <<886, 886, 1, 1>>, <<895, 895, 1, 116>>, <<902, 902, 1, 38>>,
       <<904, 906, 1, 37>>, <<908, 908, 1, 64>>, <<910, 911, 1, 63>>,
       <<913, 929, 1, 32>>, <<931, 939, 1, 32>>, <<975, 975, 1, 8>>,
       <<984, 1006, 2, 1>>, <<1012, 1012, 1, -60>>, <<1015, 1015, 1, 1>>,
       <<1017, 1017, 1, -7>>, <<1018, 1018, 1, 1>>, <<1021, 1023, 1, -130>>,
       <<1024, 1039, 1, 80>>, <<1040, 1071, 1, 32>>, <<1120, 1152, 2, 1>>,
       <<1162, 1214, 2, 1>>, <<1216, 1216, 1, 15>>, <<1217, 1229, 2, 1>>,
       <<1232, 1326, 2, 1>>, <<1329, 1366, 1, 48>>, <<4256, 4293, 1, 7264>>,
       <<4295, 4295, 1, 7264>>, <<4301, 4301, 1, 7264>>,
       <<5024, 5103, 1, 38864>>, <<5104, 5109, 1, 8>>,
       <<7312, 7354, 1, -3008>>, <<7357, 7359, 1, -3008>>,
       <<7680, 7828, 2, 1>>, <<7838, 7838, 1, -7615>>, <<7840, 7934, 2, 1>>,
       <<7944, 7951, 1, -8>>, <<7960, 7965, 1, -8>>, <<7976, 7983, 1, -8>>,
       <<7992, 7999, 1, -8>>, <<8008, 8013, 1, -8>>, <<8025, 8031, 2, -8>>,
       <<8040, 8047, 1, -8>>, <<8072, 8079, 1, -8>>, <<8088, 8095, 1, -8>>,
       <<8104, 8111, 1, -8>>, <<8120, 8121, 1, -8>>, <<8122, 8123, 1, -74>>,
       <<8124, 8124, 1, -9>>, <<8136, 8139, 1, -86>>, <<8140, 8140, 1, -9>>,
       <<8152, 8153, 1, -8>>, <<8154, 8155, 1, -100>>, <<8168, 8169, 1, -8>>,
       <<8170, 8171, 1, -112>>, <<8172, 8172, 1, -7>>,
       <<8184, 8185, 1, -128>>, <<8186, 8187, 1, -126>>,
       <<8188, 8188, 1, -9>>, <<8486, 8486, 1, -7517>>,
       <<8490, 8490, 1, -8383>>, <<8491, 8491, 1, -8262>>,
       <<8498, 8498, 1, 28>>, <<8544, 8559, 1, 16>>, <<8579, 8579, 1, 1>>,
       <<9398, 9423, 1, 26>>, <<11264, 11311, 1, 48>>, <<11360, 11360, 1, 1>>,
       <<11362, 11362, 1, -10743>>, <<11363, 11363, 1, -3814>>,
       <<11364, 11364, 1, -10727>>, <<11367, 11371, 2, 1>>,
       <<11373, 11373, 1, -10780>>, <<11374, 11374, 1, -10749>>,
       <<11375, 11375, 1, -10783>>, <<11376, 11376, 1, -10782>>,
       <<11378, 11378, 1, 1>>, <<11381, 11381, 1, 1>>,
       <<11390, 11391, 1, -10815>>, <<11392, 11490, 2, 1>>,
       <<11499, 11501, 2, 1>>, <<11506, 11506, 1, 1>>, <<42560, 42604, 2, 1>>,
       <<42624, 42650, 2, 1>>, <<42786, 42798, 2, 1>>, <<42802, 42862, 2, 1>>,
       <<42873, 42875, 2, 1>>, <<42877, 42877, 1, -35332>>,
       <<42878, 42886, 2, 1>>, <<42891, 42891, 1, 1>>,
       <<42893, 42893, 1, -42280>>, <<42896, 42898, 2, 1>>,
       <<42902, 42920, 2, 1>>, <<42922, 42922, 1, -42308>>,
       <<42923, 42923, 1, -42319>>, <<42924, 42924, 1, -42315>>,
       <<42925, 42925, 1, -42305>>, <<42926, 42926, 1, -42308>>,
       <<42928, 42928, 1, -42258>>, <<42929, 42929, 1, -42282>>,
       <<42930, 42930, 1, -42261>>, <<42931, 42931, 1, 928>>,
       <<42932, 42946, 2, 1>>, <<42948, 42948, 1, -48>>,
       <<42949, 42949, 1, -42307>>, <<42950, 42950, 1, -35384>>,
       <<42951, 42953, 2, 1>>, <<42960, 42960, 1, 1>>, <<42966, 42968, 2, 1>>,
       <<42997, 42997, 1, 1>>, <<65313, 65338, 1, 32>>,
       <<66560, 66599, 1, 40>>, <<66736, 66771, 1, 40>>,
       <<66928, 66938, 1, 39>>, <<66940, 66954, 1, 39>>,
       <<66956, 66962, 1, 39>>, <<66964, 66965, 1, 39>>,
       <<68736, 68786, 1, 64>>, <<71840, 71871, 1, 32>>,
       <<93760, 93791, 1, 32>>, <<125184, 125217, 1, 34>> >>

\* Lower-case mapping of one code point to several: <<code point, result>>.
LowerExpansions ==
    << <<304, <<105, 775>>>> >>

\* Title-case mapping, in the rows' format of LowerRuns.
TitleRuns ==
    << <<97, 122, 1, -32>>, <<181, 181, 1, 743>>, <<224, 246, 1, -32>>,
       <<248, 254, 1, -32>>, <<255, 255, 1, 121>>, <<257, 303, 2, -1>>,
       <<305, 305, 1, -232>>, <<307, 311, 2, -1>>, <<314, 328, 2, -1>>,
       <<331, 375, 2, -1>>, <<378, 382, 2, -1>>, <<383, 383, 1, -300>>,
       <<384, 384, 1, 195>>, <<387, 389, 2, -1>>, <<392, 392, 1, -1>>,
       <<396, 396, 1, -1>>, <<402, 402, 1, -1>>, <<405, 405, 1, 97>>,
       <<409, 409, 1, -1>>, <<410, 410, 1, 163>>, <<414, 414, 1, 130>>,
       <<417, 421, 2, -1>>, <<424, 424, 1, -1>>, <<429, 429, 1, -1>>,
       <<432, 432, 1, -1>>, <<436, 438, 2, -1>>, <<441, 441, 1, -1>>,
       <<445, 445, 1, -1>>, <<447, 447, 1, 56>>, <<452, 452, 1, 1>>,
       <<454, 454, 1, -1>>, <<455, 455, 1, 1>>, <<457, 457, 1, -1>>,
       <<458, 458, 1, 1>>, <<460, 476, 2, -1>>, <<477, 477, 1, -79>>,
       <<479, 495, 2, -1>>, <<497, 497, 1, 1>>, <<499, 501, 2, -1>>,
       <<505, 543, 2, -1>>, <<547, 563, 2, -1>>, <<572, 572, 1, -1>>,
       <<575, 576, 1, 10815>>, <<578, 578, 1, -1>>, <<583, 591, 2, -1>>,
       <<592, 592, 1, 10783>>, <<593, 593, 1, 10780>>, <<594, 594, 1, 10782>>,
       <<595, 595, 1, -210>>, <<596, 596, 1, -206>>, <<598, 599, 1, -205>>,
       <<601, 601, 1, -202>>, <<603, 603, 1, -203>>, <<604, 604, 1, 42319>>,
       <<608, 608, 1, -205>>, <<609, 609, 1, 42315>>, <<611, 611, 1, -207>>,
       <<613, 613, 1, 42280>>, <<614, 614, 1, 42308>>, <<616, 616, 1, -209>>,
       <<617, 617, 1, -211>>, <<618, 618, 1, 42308>>, <<619, 619, 1, 10743>>,
       <<620, 620, 1, 42305>>, <<623, 623, 1, -211>>, <<625, 625, 1, 10749>>,
       <<626, 626, 1, -213>>, <<629, 629, 1, -214>>, <<637, 637, 1, 10727>>,
       <<640, 640, 1, -218>>, <<642, 642, 1, 42307>>, <<643, 643, 1, -218>>,
       <<647, 647, 1, 42282>>, <<648, 648, 1, -218>>, <<649, 649, 1, -69>>,
       <<650, 651, 1, -217>>, <<652, 652, 1, -71>>, <<658, 658, 1, -219>>,
       <<669, 669, 1, 42261>>, <<670, 670, 1, 42258>>, <<837, 837, 1, 84>>,
       <<881, 883, 2, -1>>, <<887, 887, 1, -1>>, <<891, 893, 1, 130>>,
       <<940, 940, 1, -38>>, <<941, 943, 1, -37>>, <<945, 961, 1, -32>>,
       <<962, 962, 1, -31>>, <<963, 971, 1, -32>>, <<972, 972, 1, -64>>,
       <<973, 974, 1, -63>>, <<976, 976, 1, -62>>, <<977, 977, 1, -57>>,
       <<981, 981, 1, -47>>, <<982, 982, 1, -54>>, <<983, 983, 1, -8>>,
       <<985, 1007, 2, -1>>, <<1008, 1008, 1, -86>>, <<1009, 1009, 1, -80>>,
       <<1010, 1010, 1, 7>>, <<1011, 1011, 1, -116>>, <<1013, 1013, 1, -96>>,
       <<1016, 1016, 1, -1>>, <<1019, 1019, 1, -1>>, <<1072, 1103, 1, -32>>,
       <<1104, 1119, 1, -80>>, <<1121, 1153, 2, -1>>, <<1163, 1215, 2, -1>>,
       <<1218, 1230, 2, -1>>, <<1231, 1231, 1, -15>>, <<1233, 1327, 2, -1>>,
       <<1377, 1414, 1, -48>>, <<5112, 5117, 1, -8>>,
       <<7296, 7296, 1, -6254>>, <<7297, 7297, 1, -6253>>,
       <<7298, 7298, 1, -6244>>, <<7299, 7300, 1, -6242>>,
       <<7301, 7301, 1, -6243>>, <<7302, 7302, 1, -6236>>,
       <<7303, 7303, 1, -6181>>, <<7304, 7304, 1, 35266>>,
       <<7545, 7545, 1, 35332>>, <<7549, 7549, 1, 3814>>,
       <<7566, 7566, 1, 35384>>, <<7681, 7829, 2, -1>>,
       <<7835, 7835, 1, -59>>, <<7841, 7935, 2, -1>>, <<7936, 7943, 1, 8>>,
       <<7952, 7957, 1, 8>>, <<7968, 7975, 1, 8>>, <<7984, 7991, 1, 8>>,
       <<8000, 8005, 1, 8>>, <<8017, 8023, 2, 8>>, <<8032, 8039, 1, 8>>,
       <<8048, 8049, 1, 74>>, <<8050, 8053, 1, 86>>, <<8054, 8055, 1, 100>>,
       <<8056, 8057, 1, 128>>, <<8058, 8059, 1, 112>>, <<8060, 8061, 1, 126>>,
       <<8064, 8071, 1, 8>>, <<8080, 8087, 1, 8>>, <<8096, 8103, 1, 8>>,
       <<8112, 8113, 1, 8>>, <<8115, 8115, 1, 9>>, <<8126, 8126, 1, -7205>>,
       <<8131, 8131, 1, 9>>, <<8144, 8145, 1, 8>>, <<8160, 8161, 1, 8>>,
       <<8165, 8165, 1, 7>>, <<8179, 8179, 1, 9>>, <<8526, 8526, 1, -28>>,
       <<8560, 8575, 1, -16>>, <<8580, 8580, 1, -1>>, <<9424, 9449, 1, -26>>,
       <<11312, 11359, 1, -48>>, <<11361, 11361, 1, -1>>,
       <<11365, 11365, 1, -10795>>, <<11366, 11366, 1, -10792>>,
       <<11368, 11372, 2, -1>>, <<11379, 11379, 1, -1>>,
       <<11382, 11382, 1, -1>>, <<11393, 11491, 2, -1>>,
       <<11500, 11502, 2, -1>>, <<11507, 11507, 1, -1>>,
       <<11520, 11557, 1, -7264>>, <<11559, 11559, 1, -7264>>,
       <<11565, 11565, 1, -7264>>, <<42561, 42605, 2, -1>>,
       <<42625, 42651, 2, -1>>, <<42787, 42799, 2, -1>>,
       <<42803, 42863, 2, -1>>, <<42874, 42876, 2, -1>>,
       <<42879, 42887, 2, -1>>, <<42892, 42892, 1, -1>>,
       <<42897, 42899, 2, -1>>, <<42900, 42900, 1, 48>>,
       <<42903, 42921, 2, -1>>, <<42933, 42947, 2, -1>>,
       <<42952, 42954, 2, -1>>, <<42961, 42961, 1, -1>>,
       <<42967, 42969, 2, -1>>, <<42998, 42998, 1, -1>>,
       <<43859, 43859, 1, -928>>, <<43888, 43967, 1, -38864>>,
       <<65345, 65370, 1, -32>>, <<66600, 66639, 1, -40>>,
       <<66776, 66811, 1, -40>>, <<66967, 66977, 1, -39>>,
       <<66979, 66993, 1, -39>>, <<66995, 67001, 1, -39>>,
       <<67003, 67004, 1, -39>>, <<68800, 68850, 1, -64>>,
       <<71872, 71903, 1, -32>>, <<93792, 93823, 1, -32>>,
       <<125218, 125251, 1, -34>> >>

\* Title-case mapping of one code point to several: <<code point, result>>.
TitleExpansions ==
    << <<223, <<83, 115>>>>, <<329, <<700, 78>>>>, <<496, <<74, 780>>>>,
       <<912, <<921, 776, 769>>>>, <<944, <<933, 776, 769>>>>,
       <<1415, <<1333, 1410>>>>, <<7830, <<72, 817>>>>, <<7831, <<84, 776>>>>,
       <<7832, <<87, 778>>>>, <<7833, <<89, 778>>>>, <<7834, <<65, 702>>>>,
       <<8016, <<933, 787>>>>, <<8018, <<933, 787, 768>>>>,
       <<8020, <<933, 787, 769>>>>, <<8022, <<933, 787, 834>>>>,
       <<8114, <<8122, 837>>>>, <<8116, <<902, 837>>>>,
       <<8118, <<913, 834>>>>, <<8119, <<913, 834, 837>>>>,
       <<8130, <<8138, 837>>>>, <<8132, <<905, 837>>>>,
       <<8134, <<919, 834>>>>, <<8135, <<919, 834, 837>>>>,
       <<8146, <<921, 776, 768>>>>, <<8147, <<921, 776, 769>>>>,
       <<8150, <<921, 834>>>>, <<8151, <<921, 776, 834>>>>,
       <<8162, <<933, 776, 768>>>>, <<8163, <<933, 776, 769>>>>,
       <<8164, <<929, 787>>>>, <<8166, <<933, 834>>>>,
       <<8167, <<933, 776, 834>>>>, <<8178, <<8186, 837>>>>,
       <<8180, <<911, 837>>>>, <<8182, <<937, 834>>>>,
       <<8183, <<937, 834, 837>>>>, <<64256, <<70, 102>>>>,
       <<64257, <<70, 105>>>>, <<64258, <<70, 108>>>>,
       <<64259, <<70, 102, 105>>>>, <<64260, <<70, 102, 108>>>>,
       <<64261, <<83, 116>>>>, <<64262, <<83, 116>>>>,
       <<64275, <<1348, 1398>>>>, <<64276, <<1348, 1381>>>>,
       <<64277, <<1348, 1387>>>>, <<64278, <<1358, 1398>>>>,
       <<64279, <<1348, 1389>>>> >>

\* The cased code points (those str.title() takes as inside a word), as
\* ranges <<first, last>>.
CasedRanges ==
    << <<65, 90>>, <<97, 122>>, <<170, 170>>, <<181, 181>>, <<186, 186>>,
       <<192, 214>>, <<216, 246>>, <<248, 442>>, <<444, 447>>, <<452, 659>>,
       <<661, 696>>, <<704, 705>>, <<736, 740>>, <<837, 837>>, <<880, 883>>,
       <<886, 887>>, <<890, 893>>, <<895, 895>>, <<902, 902>>, <<904, 906>>,
       <<908, 908>>, <<910, 929>>, <<931, 1013>>, <<1015, 1153>>,
       <<1162, 1327>>, <<1329, 1366>>, <<1376, 1416>>, <<4256, 4293>>,
       <<4295, 4295>>, <<4301, 4301>>, <<4304, 4346>>, <<4349, 4351>>,
       <<5024, 5109>>, <<5112, 5117>>, <<7296, 7304>>, <<7312, 7354>>,
       <<7357, 7359>>, <<7424, 7615>>, <<7680, 7957>>, <<7960, 7965>>,
       <<7968, 8005>>, <<8008, 8013>>, <<8016, 8023>>, <<8025, 8025>>,
       <<8027, 8027>>, <<8029, 8029>>, <<8031, 8061>>, <<8064, 8116>>,
       <<8118, 8124>>, <<8126, 8126>>, <<8130, 8132>>, <<8134, 8140>>,
       <<8144, 8147>>, <<8150, 8155>>, <<8160, 8172>>, <<8178, 8180>>,
       <<8182, 8188>>, <<8305, 8305>>, <<8319, 8319>>, <<8336, 8348>>,
       <<8450, 8450>>, <<8455, 8455>>, <<8458, 8467>>, <<8469, 8469>>,
       <<8473, 8477>>, <<8484, 8484>>, <<8486, 8486>>, <<8488, 8488>>,
       <<8490, 8493>>, <<8495, 8500>>, <<8505, 8505>>, <<8508, 8511>>,
       <<8517, 8521>>, <<8526, 8526>>, <<8544, 8575>>, <<8579, 8580>>,
       <<9398, 9449>>, <<11264, 11492>>, <<11499, 11502>>, <<11506, 11507>>,
       <<11520, 11557>>, <<11559, 11559>>, <<11565, 11565>>, <<42560, 42605>>,
       <<42624, 42653>>, <<42786, 42887>>, <<42891, 42894>>, <<42896, 42954>>,
       <<42960, 42961>>, <<42963, 42963>>, <<42965, 42969>>, <<42997, 42998>>,
       <<43000, 43002>>, <<43824, 43866>>, <<43868, 43880>>, <<43888, 43967>>,
       <<64256, 64262>>, <<64275, 64279>>, <<65313, 65338>>, <<65345, 65370>>,
       <<66560, 66639>>, <<66736, 66771>>, <<66776, 66811>>, <<66928, 66938>>,
       <<66940, 66954>>, <<66956, 66962>>, <<66964, 66965>>, <<66967, 66977>>,
       <<66979, 66993>>, <<66995, 67001>>, <<67003, 67004>>, <<67456, 67456>>,
       <<67459, 67461>>, <<67463, 67504>>, <<67506, 67514>>, <<68736, 68786>>,
       <<68800, 68850>>, <<71840, 71903>>, <<93760, 93823>>,
       <<119808, 119892>>, <<119894, 119964>>, <<119966, 119967>>,
       <<119970, 119970>>, <<119973, 119974>>, <<119977, 119980>>,
       <<119982, 119993>>, <<119995, 119995>>, <<119997, 120003>>,
       <<120005, 120069>>, <<120071, 120074>>, <<120077, 120084>>,
       <<120086, 120092>>, <<120094, 120121>>, <<120123, 120126>>,
       <<120128, 120132>>, <<120134, 120134>>, <<120138, 120144>>,
       <<120146, 120485>>, <<120488, 120512>>, <<120514, 120538>>,
       <<120540, 120570>>, <<120572, 120596>>, <<120598, 120628>>,
       <<120630, 120654>>, <<120656, 120686>>, <<120688, 120712>>,
       <<120714, 120744>>, <<120746, 120770>>, <<120772, 120779>>,
       <<122624, 122633>>, <<122635, 122654>>, <<125184, 125251>>,
       <<127280, 127305>>, <<127312, 127337>>, <<127344, 127369>> >>

\* The case-ignorable code points (skipped by the final-sigma rule), as
\* ranges <<first, last>>.
CaseIgnorableRanges ==
    << <<39, 39>>, <<46, 46>>, <<58, 58>>, <<94, 94>>, <<96, 96>>,
       <<168, 168>>, <<173, 173>>, <<175, 175>>, <<180, 180>>, <<183, 184>>,
       <<688, 879>>, <<884, 885>>, <<890, 890>>, <<900, 901>>, <<903, 903>>,
       <<1155, 1161>>, <<1369, 1369>>, <<1375, 1375>>, <<1425, 1469>>,
       <<1471, 1471>>, <<1473, 1474>>, <<1476, 1477>>, <<1479, 1479>>,
       <<1524, 1524>>, <<1536, 1541>>, <<1552, 1562>>, <<1564, 1564>>,
       <<1600, 1600>>, <<1611, 1631>>, <<1648, 1648>>, <<1750, 1757>>,
       <<1759, 1768>>, <<1770, 1773>>, <<1807, 1807>>, <<1809, 1809>>,
       <<1840, 1866>>, <<1958, 1968>>, <<2027, 2037>>, <<2042, 2042>>,
       <<2045, 2045>>, <<2070, 2093>>, <<2137, 2139>>, <<2184, 2184>>,
       <<2192, 2193>>, <<2200, 2207>>, <<2249, 2306>>, <<2362, 2362>>,
       <<2364, 2364>>, <<2369, 2376>>, <<2381, 2381>>, <<2385, 2391>>,
       <<2402, 2403>>, <<2417, 2417>>, <<2433, 2433>>, <<2492, 2492>>,
       <<2497, 2500>>, <<2509, 2509>>, <<2530, 2531>>, <<2558, 2558>>,
       <<2561, 2562>>, <<2620, 2620>>, <<2625, 2626>>, <<2631, 2632>>,
       <<2635, 2637>>, <<2641, 2641>>, <<2672, 2673>>, <<2677, 2677>>,
       <<2689, 2690>>, <<2748, 2748>>, <<2753, 2757>>, <<2759, 2760>>,
       <<2765, 2765>>, <<2786, 2787>>, <<2810, 2815>>, <<2817, 2817>>,
       <<2876, 2876>>, <<2879, 2879>>, <<2881, 2884>>, <<2893, 2893>>,
       <<2901, 2902>>, <<2914, 2915>>, <<2946, 2946>>, <<3008, 3008>>,
       <<3021, 3021>>, <<3072, 3072>>, <<3076, 3076>>, <<3132, 3132>>,
       <<3134, 3136>>, <<3142, 3144>>, <<3146, 3149>>, <<3157, 3158>>,
       <<3170, 3171>>, <<3201, 3201>>, <<3260, 3260>>, <<3263, 3263>>,
       <<3270, 3270>>, <<3276, 3277>>, <<3298, 3299>>, <<3328, 3329>>,
       <<3387, 3388>>, <<3393, 3396>>, <<3405, 3405>>, <<3426, 3427>>,
       <<3457, 3457>>, <<3530, 3530>>, <<3538, 3540>>, <<3542, 3542>>,
       <<3633, 3633>>, <<3636, 3642>>, <<3654, 3662>>, <<3761, 3761>>,
       <<3764, 3772>>, <<3782, 3782>>, <<3784, 3789>>, <<3864, 3865>>,
       <<3893, 3893>>, <<3895, 3895>>, <<3897, 3897>>, <<3953, 3966>>,
       <<3968, 3972>>, <<3974, 3975>>, <<3981, 3991>>, <<3993, 4028>>,
       <<4038, 4038>>, <<4141, 4144>>, <<4146, 4151>>, <<4153, 4154>>,
       <<4157, 4158>>, <<4184, 4185>>, <<4190, 4192>>, <<4209, 4212>>,
       <<4226, 4226>>, <<4229, 4230>>, <<4237, 4237>>, <<4253, 4253>>,
       <<4348, 4348>>, <<4957, 4959>>, <<5906, 5908>>, <<5938, 5939>>,
       <<5970, 5971>>, <<6002, 6003>>, <<6068, 6069>>, <<6071, 6077>>,
       <<6086, 6086>>, <<6089, 6099>>, <<6103, 6103>>, <<6109, 6109>>,
       <<6155, 6159>>, <<6211, 6211>>, <<6277, 6278>>, <<6313, 6313>>,
       <<6432, 6434>>, <<6439, 6440>>, <<6450, 6450>>, <<6457, 6459>>,
       <<6679, 6680>>, <<6683, 6683>>, <<6742, 6742>>, <<6744, 6750>>,
       <<6752, 6752>>, <<6754, 6754>>, <<6757, 6764>>, <<6771, 6780>>,
       <<6783, 6783>>, <<6823, 6823>>, <<6832, 6862>>, <<6912, 6915>>,
       <<6964, 6964>>, <<6966, 6970>>, <<6972, 6972>>, <<6978, 6978>>,
       <<7019, 7027>>, <<7040, 7041>>, <<7074, 7077>>, <<7080, 7081>>,
       <<7083, 7085>>, <<7142, 7142>>, <<7144, 7145>>, <<7149, 7149>>,
       <<7151, 7153>>, <<7212, 7219>>, <<7222, 7223>>, <<7288, 7293>>,
       <<7376, 7378>>, <<7380, 7392>>, <<7394, 7400>>, <<7405, 7405>>,
       <<7412, 7412>>, <<7416, 7417>>, <<7468, 7530>>, <<7544, 7544>>,
       <<7579, 7679>>, <<8125, 8125>>, <<8127, 8129>>, <<8141, 8143>>,
       <<8157, 8159>>, <<8173, 8175>>, <<8189, 8190>>, <<8203, 8207>>,
       <<8216, 8217>>, <<8228, 8228>>, <<8231, 8231>>, <<8234, 8238>>,
       <<8288, 8292>>, <<8294, 8303>>, <<8305, 8305>>, <<8319, 8319>>,
       <<8336, 8348>>, <<8400, 8432>>, <<11388, 11389>>, <<11503, 11505>>,
       <<11631, 11631>>, <<11647, 11647>>, <<11744, 11775>>, <<11823, 11823>>,
       <<12293, 12293>>, <<12330, 12333>>, <<12337, 12341>>, <<12347, 12347>>,
       <<12441, 12446>>, <<12540, 12542>>, <<40981, 40981>>, <<42232, 42237>>,
       <<42508, 42508>>, <<42607, 42610>>, <<42612, 42621>>, <<42623, 42623>>,
       <<42652, 42655>>, <<42736, 42737>>, <<42752, 42785>>, <<42864, 42864>>,
       <<42888, 42890>>, <<42994, 42996>>, <<43000, 43001>>, <<43010, 43010>>,
       <<43014, 43014>>, <<43019, 43019>>, <<43045, 43046>>, <<43052, 43052>>,
       <<43204, 43205>>, <<43232, 43249>>, <<43263, 43263>>, <<43302, 43309>>,
       <<43335, 43345>>, <<43392, 43394>>, <<43443, 43443>>, <<43446, 43449>>,
       <<43452, 43453>>, <<43471, 43471>>, <<43493, 43494>>, <<43561, 43566>>,
       <<43569, 43570>>, <<43573, 43574>>, <<43587, 43587>>, <<43596, 43596>>,
       <<43632, 43632>>, <<43644, 43644>>, <<43696, 43696>>, <<43698, 43700>>,
       <<43703, 43704>>, <<43710, 43711>>, <<43713, 43713>>, <<43741, 43741>>,
       <<43756, 43757>>, <<43763, 43764>>, <<43766, 43766>>, <<43867, 43871>>,
       <<43881, 43883>>, <<44005, 44005>>, <<44008, 44008>>, <<44013, 44013>>,
       <<64286, 64286>>, <<64434, 64450>>, <<65024, 65039>>, <<65043, 65043>>,
       <<65056, 65071>>, <<65106, 65106>>, <<65109, 65109>>, <<65279, 65279>>,
       <<65287, 65287>>, <<65294, 65294>>, <<65306, 65306>>, <<65342, 65342>>,
       <<65344, 65344>>, <<65392, 65392>>, <<65438, 65439>>, <<65507, 65507>>,
       <<65529, 65531>>, <<66045, 66045>>, <<66272, 66272>>, <<66422, 66426>>,
       <<67456, 67461>>, <<67463, 67504>>, <<67506, 67514>>, <<68097, 68099>>,
       <<68101, 68102>>, <<68108, 68111>>, <<68152, 68154>>, <<68159, 68159>>,
       <<68325, 68326>>, <<68900, 68903>>, <<69291, 69292>>, <<69446, 69456>>,
       <<69506, 69509>>, <<69633, 69633>>, <<69688, 69702>>, <<69744, 69744>>,
       <<69747, 69748>>, <<69759, 69761>>, <<69811, 69814>>, <<69817, 69818>>,
       <<69821, 69821>>, <<69826, 69826>>, <<69837, 69837>>, <<69888, 69890>>,
       <<69927, 69931>>, <<69933, 69940>>, <<70003, 70003>>, <<70016, 70017>>,
       <<70070, 70078>>, <<70089, 70092>>, <<70095, 70095>>, <<70191, 70193>>,
       <<70196, 70196>>, <<70198, 70199>>, <<70206, 70206>>, <<70367, 70367>>,
       <<70371, 70378>>, <<70400, 70401>>, <<70459, 70460>>, <<70464, 70464>>,
       <<70502, 70508>>, <<70512, 70516>>, <<70712, 70719>>, <<70722, 70724>>,
       <<70726, 70726>>, <<70750, 70750>>, <<70835, 70840>>, <<70842, 70842>>,
       <<70847, 70848>>, <<70850, 70851>>, <<71090, 71093>>, <<71100, 71101>>,
       <<71103, 71104>>, <<71132, 71133>>, <<71219, 71226>>, <<71229, 71229>>,
       <<71231, 71232>>, <<71339, 71339>>, <<71341, 71341>>, <<71344, 71349>>,
       <<71351, 71351>>, <<71453, 71455>>, <<71458, 71461>>, <<71463, 71467>>,
       <<71727, 71735>>, <<71737, 71738>>, <<71995, 71996>>, <<71998, 71998>>,
       <<72003, 72003>>, <<72148, 72151>>, <<72154, 72155>>, <<72160, 72160>>,
       <<72193, 72202>>, <<72243, 72248>>, <<72251, 72254>>, <<72263, 72263>>,
       <<72273, 72278>>, <<72281, 72283>>, <<72330, 72342>>, <<72344, 72345>>,
       <<72752, 72758>>, <<72760, 72765>>, <<72767, 72767>>, <<72850, 72871>>,
       <<72874, 72880>>, <<72882, 72883>>, <<72885, 72886>>, <<73009, 73014>>,
       <<73018, 73018>>, <<73020, 73021>>, <<73023, 73029>>, <<73031, 73031>>,
       <<73104, 73105>>, <<73109, 73109>>, <<73111, 73111>>, <<73459, 73460>>,
       <<78896, 78904>>, <<92912, 92916>>, <<92976, 92982>>, <<92992, 92995>>,
       <<94031, 94031>>, <<94095, 94111>>, <<94176, 94177>>, <<94179, 94180>>,
       <<110576, 110579>>, <<110581, 110587>>, <<110589, 110590>>,
       <<113821, 113822>>, <<113824, 113827>>, <<118528, 118573>>,
       <<118576, 118598>>, <<119143, 119145>>, <<119155, 119170>>,
       <<119173, 119179>>, <<119210, 119213>>, <<119362, 119364>>,
       <<121344, 121398>>, <<121403, 121452>>, <<121461, 121461>>,
       <<121476, 121476>>, <<121499, 121503>>, <<121505, 121519>>,
       <<122880, 122886>>, <<122888, 122904>>, <<122907, 122913>>,
       <<122915, 122916>>, <<122918, 122922>>, <<123184, 123197>>,
       <<123566, 123566>>, <<123628, 123631>>, <<125136, 125142>>,
       <<125252, 125259>>, <<127995, 127999>>, <<917505, 917505>>,
       <<917536, 917631>>, <<917760, 917999>> >>

\* The decimal digits int() reads: ranges <<first, last>> in which the code
\* point first + k has the value k % 10.
DecimalRanges ==
    << <<48, 57>>, <<1632, 1641>>, <<1776, 1785>>, <<1984, 1993>>,
       <<2406, 2415>>, <<2534, 2543>>, <<2662, 2671>>, <<2790, 2799>>,
       <<2918, 2927>>, <<3046, 3055>>, <<3174, 3183>>, <<3302, 3311>>,
       <<3430, 3439>>, <<3558, 3567>>, <<3664, 3673>>, <<3792, 3801>>,
       <<3872, 3881>>, <<4160, 4169>>, <<4240, 4249>>, <<6112, 6121>>,
       <<6160, 6169>>, <<6470, 6479>>, <<6608, 6617>>, <<6784, 6793>>,
       <<6800, 6809>>, <<6992, 7001>>, <<7088, 7097>>, <<7232, 7241>>,
       <<7248, 7257>>, <<42528, 42537>>, <<43216, 43225>>, <<43264, 43273>>,
       <<43472, 43481>>, <<43504, 43513>>, <<43600, 43609>>, <<44016, 44025>>,
       <<65296, 65305>>, <<66720, 66729>>, <<68912, 68921>>, <<69734, 69743>>,
       <<69872, 69881>>, <<69942, 69951>>, <<70096, 70105>>, <<70384, 70393>>,
       <<70736, 70745>>, <<70864, 70873>>, <<71248, 71257>>, <<71360, 71369>>,
       <<71472, 71481>>, <<71904, 71913>>, <<72016, 72025>>, <<72784, 72793>>,
       <<73040, 73049>>, <<73120, 73129>>, <<92768, 92777>>, <<92864, 92873>>,
       <<93008, 93017>>, <<120782, 120831>>, <<123200, 123209>>,
       <<123632, 123641>>, <<125264, 125273>>, <<130032, 130041>> >>
-----------------------------------------------------------------------------
(* Python str operations.                                                  *)

\* The code points str.strip() removes: those for which str.isspace() holds.
Whitespace ==
    (9..13) \cup (28..32) \cup {133, 160, 5760} \cup (8192..8202)
        \cup {8232, 8233, 8239, 8287, 12288}

RECURSIVE lstrip(_)
lstrip(s) ==
    IF s # <<>> /\ Head(s) \in Whitespace THEN lstrip(Tail(s)) ELSE s

RECURSIVE rstrip(_)
rstrip(s) ==
    IF s # <<>> /\ s[Len(s)] \in Whitespace
    THEN rstrip(SubSeq(s, 1, Len(s) - 1))
    ELSE s

strip(s) == rstrip(lstrip(s))

RECURSIVE Flatten(_)
Flatten(blocks) ==
    IF blocks = <<>> THEN <<>>
    ELSE IF Len(blocks) = 1 THEN blocks[1]
    ELSE LET mid == Len(blocks) \div 2
         IN  Flatten(SubSeq(blocks, 1, mid))
                 \o Flatten(SubSeq(blocks, mid + 1, Len(blocks)))

IsCased(c) == InRanges(CasedRanges, c)

IsCaseIgnorable(c) == InRanges(CaseIgnorableRanges, c)

\* The image of c under a case mapping given by its two tables: a str of
\* one code point or more; c itself when no row covers it.
CaseMapped(runs, expansions, c) ==
    LET e == Row(expansions, c)
        i == Row(runs, c)
    IN  IF e > 0 /\ expansions[e][1] = c THEN expansions[e][2]
        ELSE IF i > 0 /\ c <= runs[i][2] /\ (c - runs[i][1]) % runs[i][3] = 0
        THEN <<c + runs[i][4]>>
        ELSE <<c>>

LowerChar(c) == CaseMapped(LowerRuns, LowerExpansions, c)

TitleChar(c) == CaseMapped(TitleRuns, TitleExpansions, c)

\* A capital sigma is lower-cased to the final form when a cased character
\* comes before it and none after it, case-ignorable characters skipped.
FinalSigma(s, i) ==
    LET before == {j \in 1..(i - 1) : ~IsCaseIgnorable(s[j])}
        after  == {j \in (i + 1)..Len(s) : ~IsCaseIgnorable(s[j])}
    IN  /\ before # {}
        /\ IsCased(s[CHOOSE j \in before : \A k \in before : k <= j])
        /\ \/ after = {}
           \/ ~IsCased(s[CHOOSE j \in after : \A k \in after : j <= k])

\* The lower case of the character at position i of s.
LowerAt(s, i) ==
    IF s[i] = 931
    THEN (IF FinalSigma(s, i) THEN <<962>> ELSE <<963>>)
    ELSE LowerChar(s[i])

lower(s) == Flatten([i \in 1..Len(s) |-> LowerAt(s, i)])

\* str.replace(old, new): the occurrences of old, found from the left and
\* not overlapping, become new; an empty old is found before every
\* character and at the end.
RECURSIVE replace(_, _, _)
replace(s, old, new) ==
    IF old = <<>>
    THEN Flatten([i \in 1..Len(s) |-> new \o <<s[i]>>]) \o new
    ELSE IF Len(s) < Len(old) THEN s
    ELSE IF SubSeq(s, 1, Len(old)) = old
    THEN new \o replace(SubSeq(s, Len(old) + 1, Len(s)), old, new)
    ELSE <<Head(s)>> \o replace(Tail(s), old, new)

\* str.title(): a character is title-cased when it starts a word (the
\* character before it is not cased) and lower-cased otherwise.
title(s) ==
    Flatten([i \in 1..Len(s) |->
                IF i > 1 /\ IsCased(s[i - 1]) THEN LowerAt(s, i) ELSE TitleChar(s[i])])

\* str.split(sep) for a non-empty sep: the list of the segments between the
\* occurrences of sep, empty segments included.
RECURSIVE SplitFrom(_, _, _)
SplitFrom(s, sep, cur) ==
    IF Len(s) < Len(sep) THEN <<cur \o s>>
    ELSE IF SubSeq(s, 1, Len(sep)) = sep
    THEN <<cur>> \o SplitFrom(SubSeq(s, Len(sep) + 1, Len(s)), sep, <<>>)
    ELSE SplitFrom(Tail(s), sep, Append(cur, Head(s)))

split(s, sep) == SplitFrom(s, sep, <<>>)

\* The value of the decimal digit c.
DigitVal(c) == (c - DecimalRanges[Row(DecimalRanges, c)][1]) % 10

\* What int() reads for the character c: an ASCII character is itself, any
\* other whitespace is a space, any other decimal digit is its ASCII digit,
\* and anything else is "?".
IntChar(c) ==
    IF c < 127 THEN c
    ELSE IF c \in Whitespace THEN 32
    ELSE IF InRanges(DecimalRanges, c) THEN 48 + DigitVal(c)
    ELSE 63

\* The whitespace int() skips around the number.
IntSpace == {9, 10, 11, 12, 13, 32}

RECURSIVE IntLstrip(_)
IntLstrip(t) == IF t # <<>> /\ Head(t) \in IntSpace THEN IntLstrip(Tail(t)) ELSE t

RECURSIVE IntRstrip(_)
IntRstrip(t) ==
    IF t # <<>> /\ t[Len(t)] \in IntSpace
    THEN IntRstrip(SubSeq(t, 1, Len(t) - 1))
    ELSE t

\* The sign and the digits int() finds in s: s as int() reads it, without
\* the whitespace around it.
IntBody(s) == IntRstrip(IntLstrip([i \in 1..Len(s) |-> IntChar(s[i])]))

IntSigned(s) == IntBody(s) # <<>> /\ Head(IntBody(s)) \in {43, 45}

IntDigits(s) == IF IntSigned(s) THEN Tail(IntBody(s)) ELSE IntBody(s)

\* sys.get_int_max_str_digits(): the longest digit string int() converts.
int_max_str_digits == 4300

\* int(s) returns a value: s holds, inside optional whitespace and after an
\* optional sign, decimal digits with single underscores between them;
\* otherwise int(s) raises ValueError.
IsIntLiteral(s) ==
    LET d == IntDigits(s)
    IN  /\ d # <<>>
        /\ \A i \in 1..Len(d) :
               \/ d[i] \in 48..57
               \/ d[i] = 95 /\ i > 1 /\ i < Len(d) /\ d[i - 1] # 95
        /\ Cardinality({i \in 1..Len(d) : d[i] # 95}) <= int_max_str_digits

RECURSIVE DigitsValue(_)
DigitsValue(d) ==
    IF d = <<>> THEN 0
    ELSE IF d[Len(d)] = 95 THEN DigitsValue(SubSeq(d, 1, Len(d) - 1))
    ELSE 10 * DigitsValue(SubSeq(d, 1, Len(d) - 1)) + (d[Len(d)] - 48)

\* The outcome of int(s): ValueError, or the value.
int(s) ==
    IF ~IsIntLiteral(s) THEN [raised |-> TRUE]
    ELSE [raised |-> FALSE,
          value  |-> IF IntSigned(s) /\ Head(IntBody(s)) = 45
                     THEN 0 - DigitsValue(IntDigits(s))
                     ELSE DigitsValue(IntDigits(s))]

\* The text an f-string writes for an int.
RECURSIVE IntToStr(_)
IntToStr(n) ==
    IF n < 0 THEN <<45>> \o IntToStr(0 - n)
    ELSE IF n < 10 THEN <<48 + n>>
    ELSE Append(IntToStr(n \div 10), 48 + (n % 10))

\* sep.join(list): the elements in order, sep between each two neighbours
\* (evaluated by halves to keep the recursion shallow).
RECURSIVE join(_, _)
join(sep, list) ==
    IF list = <<>> THEN <<>>
    ELSE IF Len(list) = 1 THEN list[1]
    ELSE LET mid == Len(list) \div 2
         IN  join(sep, SubSeq(list, 1, mid)) \o sep
                 \o join(sep, SubSeq(list, mid + 1, Len(list)))

-----------------------------------------------------------------------------
(* Python dicts.                                                           *)

\* Ordered dict: a sequence of [k, v] in insertion order.
DictKeys(d) == [i \in 1..Len(d) |-> d[i].k]

DictHas(d, key) == \E i \in 1..Len(d) : d[i].k = key

DictGet(d, key) == d[CHOOSE i \in 1..Len(d) : d[i].k = key].v

\* Faulty variant: every assignment adds an entry.
DictSetAppend(d, key, value) == Append(d, [k |-> key, v |-> value])

\* d[key] = value: an existing key keeps its position and takes the new
\* value; a new key goes to the end.
DictSet(d, key, value) ==
    IF DictHas(d, key)
    THEN [i \in 1..Len(d) |-> IF d[i].k = key THEN [k |-> key, v |-> value] ELSE d[i]]
    ELSE Append(d, [k |-> key, v |-> value])

\* Unordered use of a dict: f[key] = value on a function.
Put(f, key, value) ==
    [x \in (DOMAIN f) \cup {key} |-> IF x = key THEN value ELSE f[x]]

EmptyDict == <<>>

-----------------------------------------------------------------------------
(* get_table_filter_columns: the filter resolver.                          *)

\* table_filters: the predefined table-to-filter mapping.
table_filters ==
    << [k |-> Chars("users"),
        v |-> <<Chars("account_name"), Chars("user_id"), Chars("status")>>],
       [k |-> Chars("transactions"),
        v |-> <<Chars("client_id"), Chars("status"), Chars("region")>>],
       [k |-> Chars("events"),
        v |-> <<Chars("account_name"), Chars("user_id")>>],
       [k |-> Chars("orders"),
        v |-> <<Chars("client_id"), Chars("status")>>],
       [k |-> Chars("logs"),
        v |-> <<Chars("account_name"), Chars("region")>>] >>

\* Faulty variant: an unknown table falls back to a non-empty default.
ApplicableFiltersDefaultStatus(tname) ==
    IF DictHas(table_filters, tname)
    THEN DictGet(table_filters, tname)
    ELSE <<Chars("status")>>

\* applicable_filters = table_filters.get(table_name, [])
ApplicableFilters(tname) ==
    IF DictHas(table_filters, tname) THEN DictGet(table_filters, tname) ELSE <<>>

\* Faulty variant: the test for an empty value list is dropped.
ColumnMatchesAnyList(column_name, gf) == column_name \in DOMAIN gf

\* column_name in global_filters and global_filters[column_name]
ColumnMatches(column_name, gf) ==
    column_name \in DOMAIN gf /\ gf[column_name] # <<>>

\* Faulty variant: the IN clause joins the values with "," alone.
ConditionBareJoin(values) ==
    IF Len(values) = 1
    THEN Chars("= '") \o values[1] \o Chars("'")
    ELSE Chars("IN ('") \o join(Chars(","), values) \o Chars("')")

\* The condition of one filter column, from its value list.
Condition(values) ==
    IF Len(values) = 1
    THEN Chars("= '") \o values[1] \o Chars("'")
    ELSE Chars("IN ('") \o join(Chars("', '"), values) \o Chars("')")

get_table_filter_columns(tname, gf) ==
    LET matched == SelectSeq(ApplicableFilters(tname),
                             LAMBDA column_name : ColumnMatches(column_name, gf))
    IN  [i \in 1..Len(matched) |->
            [column_name |-> matched[i],
             condition   |-> Condition(gf[matched[i]]),
             operator    |-> Chars("AND")]]

-----------------------------------------------------------------------------
(* generate_source_datasets_config: the source datasets of the catalog.    *)

predefined_structure ==
    << [k |-> Chars("raw_lake"),
        v |-> [description |-> Chars("Raw data lake"),
               tables |-> <<Chars("users"), Chars("transactions"), Chars("events"),
                            Chars("orders"), Chars("logs")>>]],
       [k |-> Chars("analytics_raw"),
        v |-> [description |-> Chars("Raw analytics data"),
               tables |-> <<Chars("user_behavior"), Chars("conversion_events"),
                            Chars("page_tracking")>>]],
       [k |-> Chars("transaction_raw"),
        v |-> [description |-> Chars("Raw transaction data"),
               tables |-> <<Chars("payments"), Chars("refunds"),
                            Chars("invoices")>>]] >>

\* dataset_config["tables"][table_name] = {...}
TableEntry(tname, gf) ==
    [source_table_id  |-> tname,
     view_name        |-> tname,
     filter_columns   |-> get_table_filter_columns(tname, gf),
     additional_where |-> Chars(""),
     description      |-> tname \o Chars(" filtered view")]

RECURSIVE BuildTables(_, _, _)
BuildTables(tables, gf, acc) ==
    IF tables = <<>> THEN acc
    ELSE BuildTables(Tail(tables), gf,
                     DictSet(acc, Head(tables), TableEntry(Head(tables), gf)))

DatasetConfig(conf, gf, ckey) ==
    [target_dataset_key |-> ckey,
     description        |-> conf.description,
     tables             |-> BuildTables(conf.tables, gf, EmptyDict)]

RECURSIVE BuildSourceDatasets(_, _, _, _)
BuildSourceDatasets(structure, gf, ckey, acc) ==
    IF structure = <<>> THEN acc
    ELSE BuildSourceDatasets(Tail(structure), gf, ckey,
             DictSet(acc, Head(structure).k, DatasetConfig(Head(structure).v, gf, ckey)))

generate_source_datasets_config(gf, ckey) ==
    BuildSourceDatasets(predefined_structure, gf, ckey, EmptyDict)

-----------------------------------------------------------------------------
(* generate_tfvars_content: the renderer.                                  *)

Q(s) == Chars("\"") \o s \o Chars("\"")

\* Faulty variant: .items() walked from the last entry to the first.
ItemsReversed(d) == [i \in 1..Len(d) |-> d[Len(d) + 1 - i]]

\* d.items(): the entries in insertion order.
Items(d) == d

Has(f, key) == key \in DOMAIN f

\* A subscript d[key] of a missing key raises KeyError.
Missing(f, keys) == \E key \in keys : ~Has(f, key)

\* filter_col.get("operator") != "AND"
OperatorShown(filter_col) ==
    ~Has(filter_col, "operator") \/ filter_col["operator"] # Chars("AND")

\* table_info.get(key) taken as a condition: present and not empty.
TruthyGet(f, key) == Has(f, key) /\ f[key] # Chars("")

FilterColRaises(filter_col) ==
    \/ Missing(filter_col, {"column_name", "condition"})
    \/ (OperatorShown(filter_col) /\ ~Has(filter_col, "operator"))

TableRaises(table_info) ==
    \/ Missing(table_info, {"source_table_id", "view_name", "filter_columns"})
    \/ \E i \in 1..Len(table_info["filter_columns"]) :
           FilterColRaises(table_info["filter_columns"][i])

SourceDatasetRaises(dataset_info) ==
    \/ Missing(dataset_info, {"target_dataset_key", "description", "tables"})
    \/ \E i \in 1..Len(dataset_info["tables"]) : TableRaises(dataset_info["tables"][i].v)

OutputDatasetRaises(dataset) ==
    Missing(dataset, {"dataset_id", "description", "months_back", "labels"})

\* Whether rendering c raises KeyError: some subscript meets a missing key.
RenderRaises(c) ==
    \/ Missing(c, {"project_id"})
    \/ Missing(c, {"output_datasets_config"})
    \/ \E i \in 1..Len(c["output_datasets_config"]) :
           OutputDatasetRaises(c["output_datasets_config"][i].v)
    \/ Missing(c, {"source_datasets_config"})
    \/ \E i \in 1..Len(c["source_datasets_config"]) :
           SourceDatasetRaises(c["source_datasets_config"][i].v)

\* Faulty variant: .get without its default, which formats as None.
GetOrNone(f, key, default) == IF Has(f, key) THEN f[key] ELSE Chars("None")

\* config.get(key, default)
GetOr(f, key, default) == IF Has(f, key) THEN f[key] ELSE default

HeaderLines(c) ==
    << Chars("# GCP Configuration"),
       Chars("project_id = ") \o Q(c["project_id"]),
       Chars("region     = ") \o Q(GetOr(c, "region", Chars("asia-northeast1"))),
       Chars(""),
       Chars("# View Configuration"),
       Chars("view_prefix = ") \o Q(GetOr(c, "view_prefix", Chars("filtered_"))),
       Chars(""),
       Chars("# Output Datasets Configuration"),
       Chars("output_datasets_config = {") >>

LabelLines(labels) ==
    LET items == Items(labels)
    IN  [i \in 1..Len(items) |->
            Chars("      ") \o items[i].k \o Chars(" = ") \o Q(items[i].v)]

OutputDatasetLines(key, dataset) ==
    << Chars("  ") \o Q(key) \o Chars(" = {"),
       Chars("    dataset_id  = ") \o Q(dataset["dataset_id"]),
       Chars("    description = ") \o Q(dataset["description"]),
       Chars("    months_back = ") \o IntToStr(dataset["months_back"]),
       Chars("    labels = {") >>
    \o LabelLines(dataset["labels"])
    \o << Chars("    }"), Chars("  }"), Chars("") >>

FilterColLines(filter_col) ==
    << Chars("          {"),
       Chars("            column_name = ") \o Q(filter_col["column_name"]),
       Chars("            condition   = ") \o Q(filter_col["condition"]) >>
    \o (IF OperatorShown(filter_col)
        THEN << Chars("            operator    = ") \o Q(filter_col["operator"]) >>
        ELSE <<>>)
    \o << Chars("          }") >>

TableLines(table_key, table_info) ==
    << Chars("      ") \o Q(table_key) \o Chars(" = {"),
       Chars("        source_table_id = ") \o Q(table_info["source_table_id"]),
       Chars("        view_name      = ") \o Q(table_info["view_name"]),
       Chars("        filter_columns = [") >>
    \o Flatten([i \in 1..Len(table_info["filter_columns"]) |->
                   FilterColLines(table_info["filter_columns"][i])])
    \o << Chars("        ]") >>
    \o (IF TruthyGet(table_info, "additional_where")
        THEN << Chars("        additional_where = ")
                    \o Q(table_info["additional_where"]) >>
        ELSE <<>>)
    \o (IF TruthyGet(table_info, "description")
        THEN << Chars("        description     = ") \o Q(table_info["description"]) >>
        ELSE <<>>)
    \o << Chars("      }"), Chars("") >>

SourceDatasetLines(dataset_name, dataset_info) ==
    LET tables == Items(dataset_info["tables"])
    IN  << Chars("  ") \o Q(dataset_name) \o Chars(" = {"),
           Chars("    target_dataset_key = ") \o Q(dataset_info["target_dataset_key"]) >>
        \o (IF Has(dataset_info, "source_project_id")
            THEN << Chars("    source_project_id  = ")
                        \o Q(dataset_info["source_project_id"]) >>
            ELSE <<>>)
        \o << Chars("    description        = ") \o Q(dataset_info["description"]),
              Chars("    tables = {") >>
        \o Flatten([i \in 1..Len(tables) |-> TableLines(tables[i].k, tables[i].v)])
        \o << Chars("    }"), Chars("  }"), Chars("") >>

\* The list "lines" at the return statement, for a config that does not raise.
generate_tfvars_lines(c) ==
    LET outs == Items(c["output_datasets_config"])
        srcs == Items(c["source_datasets_config"])
    IN  HeaderLines(c)
        \o Flatten([i \in 1..Len(outs) |-> OutputDatasetLines(outs[i].k, outs[i].v)])
        \o << Chars("}"), Chars(""),
              Chars("# Source Datasets and Tables Configuration"),
              Chars("source_datasets_config = {") >>
        \o Flatten([i \in 1..Len(srcs) |-> SourceDatasetLines(srcs[i].k, srcs[i].v)])
        \o << Chars("}") >>

\* The outcome of the call: KeyError, or the lines joined with "\n".
generate_tfvars_content(c) ==
    IF RenderRaises(c)
    THEN [raised |-> TRUE]
    ELSE LET lines == generate_tfvars_lines(c)
         IN  [raised |-> FALSE, lines |-> lines, text |-> join(Chars("\n"), lines)]

-----------------------------------------------------------------------------
(* State outside the part of the program a specification runs.             *)

NoConfig == <<>>
NoResult == [raised |-> FALSE, lines |-> <<>>, text |-> <<>>]

IdleMain ==
    /\ client_name = <<>>
    /\ client_key = <<>>
    /\ col_idx = 0
    /\ dataset_key = <<>>
    /\ output_datasets_config = EmptyDict
    /\ content = <<>>
    /\ n_extra = 0
    /\ entered = <<>>

-----------------------------------------------------------------------------
(* SpecFilter: calls of get_table_filter_columns and of                    *)
(* generate_source_datasets_config on drawn arguments.                     *)

\* The columns collect_global_filter_values asks for, in its order.
filter_column_names ==
    <<Chars("account_name"), Chars("client_id"), Chars("user_id"),
      Chars("status"), Chars("region")>>

ColumnNames == {filter_column_names[i] : i \in 1..Len(filter_column_names)}

Range(s) == {s[i] : i \in 1..Len(s)}

\* Tables of the catalog with and without filters, and one of no catalog.
TableNames ==
    Range(DictKeys(table_filters))
        \cup {Chars("payments"), Chars("user_behavior"), Chars("audit")}

FilterValues == {Chars("a"), Chars("b")}

ValueLists == UNION {[1..n -> FilterValues] : n \in 0..MaxVals}

\* Key sets drawn for global_filters: the columns of one catalog table, or
\* fewer.
KeySets == UNION {SUBSET Range(table_filters[i].v) : i \in 1..Len(table_filters)}

GlobalFilterArgs == UNION {[cols -> ValueLists] : cols \in KeySets}

ClientKeyArg == Chars("acme")

InitFilter ==
    /\ pc = "resolver_call"
    /\ table_name \in TableNames
    /\ global_filters \in GlobalFilterArgs
    /\ filter_columns = <<>>
    /\ source_datasets_config = EmptyDict
    /\ config = NoConfig
    /\ result = NoResult
    /\ client_name = <<>>
    /\ client_key = ClientKeyArg
    /\ col_idx = 0
    /\ dataset_key = <<>>
    /\ output_datasets_config = EmptyDict
    /\ content = <<>>
    /\ n_extra = 0
    /\ entered = <<>>

\* filter_columns = get_table_filter_columns(table_name, global_filters)
ResolveFilters ==
    /\ pc = "resolver_call"
    /\ filter_columns' = get_table_filter_columns(table_name, global_filters)
    /\ pc' = "resolver_done"
    /\ UNCHANGED <<config, client_name, client_key, global_filters, col_idx,
                   dataset_key, output_datasets_config, source_datasets_config,
                   content, n_extra, entered, table_name, result>>

\* source_datasets_config = generate_source_datasets_config(global_filters, client_key)
AssembleSources ==
    /\ pc = "resolver_done"
    /\ source_datasets_config' =
           generate_source_datasets_config(global_filters, client_key)
    /\ pc' = "sources_done"
    /\ UNCHANGED <<config, client_name, client_key, global_filters, col_idx,
                   dataset_key, output_datasets_config, content, n_extra,
                   entered, table_name, filter_columns, result>>

NextFilter == ResolveFilters \/ AssembleSources

SpecFilter == InitFilter /\ [][NextFilter]_vars

-----------------------------------------------------------------------------
(* Properties of the filter resolver, under SpecFilter.                    *)

Resolved == pc \in {"resolver_done", "sources_done"}

CatalogTables ==
    {Chars("users"), Chars("transactions"), Chars("events"), Chars("orders"),
     Chars("logs")}

CatalogColumns(tname) ==
    IF tname \in CatalogTables THEN DictGet(table_filters, tname) ELSE <<>>

HasValues(gf, c) == c \in DOMAIN gf /\ Len(gf[c]) >= 1

PositionIn(list, x) == CHOOSE i \in 1..Len(list) : list[i] = x

\* C2: get_table_filter_columns returns exactly one FilterColumn, with
\* operator "AND", for each column of the table's catalog list that is a key
\* of global_filters with a non-empty value list, in the catalog's order and
\* with no other entry; a catalog column that is absent from global_filters
\* or mapped to an empty list gives no entry.
C2_OneEntryPerMatchedColumn ==
    Resolved =>
        LET cat == CatalogColumns(table_name)
            n == Len(filter_columns)
        IN  /\ \A i \in 1..n :
                   /\ filter_columns[i].operator = Chars("AND")
                   /\ filter_columns[i].column_name \in Range(cat)
                   /\ HasValues(global_filters, filter_columns[i].column_name)
            /\ \A c \in Range(cat) :
                   Cardinality({i \in 1..n : filter_columns[i].column_name = c})
                       = (IF HasValues(global_filters, c) THEN 1 ELSE 0)
            /\ \A i, j \in 1..n :
                   i < j => PositionIn(cat, filter_columns[i].column_name)
                              < PositionIn(cat, filter_columns[j].column_name)

\* A call on "users" where one catalog column is absent, one is mapped to the
\* empty list and one has values: a single entry comes back.
C2_Witness ==
    /\ pc = "resolver_done"
    /\ table_name = Chars("users")
    /\ Chars("user_id") \notin DOMAIN global_filters
    /\ Chars("account_name") \in DOMAIN global_filters
    /\ global_filters[Chars("account_name")] = <<>>
    /\ Chars("status") \in DOMAIN global_filters
    /\ global_filters[Chars("status")] = <<Chars("a"), Chars("b")>>
    /\ Len(filter_columns) = 1
    /\ filter_columns[1].column_name = Chars("status")

Quoted(values) == [i \in 1..Len(values) |-> Chars("'") \o values[i] \o Chars("'")]

\* C3: the condition of every returned FilterColumn depends only on the
\* matched value list: one value v gives "= 'v'", two or more values give
\* "IN (...)" holding every value once per occurrence, each in single
\* quotes, separated by ", ", in the order of the list.
C3_ConditionFormat ==
    Resolved =>
        \A i \in 1..Len(filter_columns) :
            LET values == global_filters[filter_columns[i].column_name]
            IN  /\ Len(values) = 1 =>
                       filter_columns[i].condition
                           = Chars("= '") \o values[1] \o Chars("'")
                /\ Len(values) >= 2 =>
                       filter_columns[i].condition
                           = Chars("IN (") \o join(Chars(", "), Quoted(values))
                                 \o Chars(")")

\* A call that returns an equality and an IN list, one with a repeated value.
C3_Witness ==
    /\ pc = "resolver_done"
    /\ Len(filter_columns) >= 2
    /\ \E i, j \in 1..Len(filter_columns) :
           /\ Len(global_filters[filter_columns[i].column_name]) = 1
           /\ Len(global_filters[filter_columns[j].column_name]) = 2
           /\ filter_columns[j].condition = Chars("IN ('b', 'a')")
    /\ \E c \in DOMAIN global_filters :
           Len(global_filters[c]) >= 2 /\ global_filters[c][1] = global_filters[c][2]

TablesOf(datasets, name) == DictGet(datasets, name).tables

\* C4: for a table name that is no key of the catalog's table-to-filter
\* mapping, get_table_filter_columns returns the empty list; so every table
\* of analytics_raw and of transaction_raw is assembled with an empty
\* filter_columns list.
C4_UnknownTableNoFilters ==
    /\ (Resolved /\ table_name \notin CatalogTables) => filter_columns = <<>>
    /\ pc = "sources_done" =>
           \A name \in {Chars("analytics_raw"), Chars("transaction_raw")} :
               /\ DictHas(source_datasets_config, name)
               /\ Len(TablesOf(source_datasets_config, name)) = 3
               /\ \A i \in 1..Len(TablesOf(source_datasets_config, name)) :
                      TablesOf(source_datasets_config, name)[i].v.filter_columns = <<>>

\* A call on a table of no catalog under filters that do reach the raw_lake
\* tables.
C4_Witness ==
    /\ pc = "sources_done"
    /\ table_name = Chars("payments")
    /\ \E c \in DOMAIN global_filters : global_filters[c] # <<>>
    /\ \E i \in 1..Len(TablesOf(source_datasets_config, Chars("raw_lake"))) :
           TablesOf(source_datasets_config, Chars("raw_lake"))[i].v.filter_columns # <<>>

-----------------------------------------------------------------------------
(* SpecRender: calls of generate_tfvars_content on drawn configs, with     *)
(* root fields and optional fields present, empty or absent.               *)

Restrict(f, keys) == [x \in keys |-> f[x]]

\* The records of S, and each of them with key set to one of values.
Optional(S, key, values) == S \cup {Put(f, key, v) : f \in S, v \in values}

OperatorValues == {Chars(""), Chars("AND"), Chars("OR")}

FilterColArgs ==
    Optional({[column_name |-> Chars("status"), condition |-> Chars("= 'a'")]},
             "operator", OperatorValues)

FilterColumnsArgs == {<<>>} \cup {<<fc>> : fc \in FilterColArgs}

WhereValues == {Chars(""), Chars("x > 1")}

DescriptionValues == {Chars(""), Chars("users view")}

ProjectValues == {Chars(""), Chars("proj")}

TableArgs ==
    Optional(
        Optional({[source_table_id |-> Chars("users"), view_name |-> Chars("users_v"),
                   filter_columns |-> fcs] : fcs \in FilterColumnsArgs},
                 "additional_where", WhereValues),
        "description", DescriptionValues)

SourceDatasetArgs ==
    Optional({[target_dataset_key |-> Chars("acme"),
               description |-> Chars("Raw data lake"),
               tables |-> <<[k |-> Chars("users"), v |-> t]>>] : t \in TableArgs},
             "source_project_id", ProjectValues)

OutputDatasetsArg ==
    << [k |-> Chars("acme"),
        v |-> [dataset_id  |-> Chars("acme_filtered"),
               description |-> Chars("Acme filtered views for Acme"),
               months_back |-> 18,
               labels |-> << [k |-> Chars("environment"), v |-> Chars("production")],
                             [k |-> Chars("client"), v |-> Chars("acme")],
                             [k |-> Chars("team"), v |-> Chars("acme")] >>]] >>

RootKeys ==
    {"project_id", "region", "view_prefix", "output_datasets_config",
     "source_datasets_config"}

FullConfig(dataset_info) ==
    [project_id |-> Chars("p1"), region |-> Chars("eu"), view_prefix |-> Chars("v_"),
     output_datasets_config |-> OutputDatasetsArg,
     source_datasets_config |-> <<[k |-> Chars("raw_lake"), v |-> dataset_info]>>]

ConfigArgs ==
    {Restrict(FullConfig(d), keys) : d \in SourceDatasetArgs, keys \in SUBSET RootKeys}

InitRender ==
    /\ pc = "render_call"
    /\ config \in ConfigArgs
    /\ result = NoResult
    /\ global_filters = <<>>
    /\ source_datasets_config = EmptyDict
    /\ table_name = <<>>
    /\ filter_columns = <<>>
    /\ IdleMain

\* content = generate_tfvars_content(config), returning
RenderReturns ==
    /\ pc = "render_call"
    /\ ~generate_tfvars_content(config).raised
    /\ result' = generate_tfvars_content(config)
    /\ pc' = "render_returned"
    /\ UNCHANGED <<config, client_name, client_key, global_filters, col_idx,
                   dataset_key, output_datasets_config, source_datasets_config,
                   content, n_extra, entered, table_name, filter_columns>>

\* content = generate_tfvars_content(config), raising KeyError
RenderFails ==
    /\ pc = "render_call"
    /\ generate_tfvars_content(config).raised
    /\ result' = generate_tfvars_content(config)
    /\ pc' = "render_raised"
    /\ UNCHANGED <<config, client_name, client_key, global_filters, col_idx,
                   dataset_key, output_datasets_config, source_datasets_config,
                   content, n_extra, entered, table_name, filter_columns>>

NextRender == RenderReturns \/ RenderFails

SpecRender == InitRender /\ [][NextRender]_vars

-----------------------------------------------------------------------------
(* Properties of the renderer, under SpecRender.                           *)

RenderDone == pc \in {"render_returned", "render_raised"}

RequiredRootKeys == {"project_id", "output_datasets_config", "source_datasets_config"}

\* The one source dataset, table and filter column list of a drawn config.
ArgDataset == config["source_datasets_config"][1].v
ArgTable == ArgDataset["tables"][1].v
ArgFilterCols == ArgTable["filter_columns"]

\* Some line of the returned text assigns the field: prefix, then a value
\* in double quotes.
Assigned(prefix, values) ==
    \E v \in values : \E i \in 1..Len(result.lines) :
        result.lines[i] = Chars(prefix) \o Q(v)

PresentNonEmpty(f, key) == key \in DOMAIN f /\ f[key] # Chars("")

\* C5: in the text of generate_tfvars_content each optional field
\* (source_project_id of a source dataset, additional_where and description
\* of a table, operator of a filter column) is written only when it is
\* present and non-empty (for operator: present and not "AND"); an absent
\* or empty field gives no assignment line, and its absence does not make
\* rendering fail.
C5_OptionalFieldsOmitted ==
    RenderDone =>
        /\ (~Missing(config, RequiredRootKeys)) => pc = "render_returned"
        /\ pc = "render_returned" =>
               /\ Assigned("    source_project_id  = ", ProjectValues)
                      <=> PresentNonEmpty(ArgDataset, "source_project_id")
               /\ Assigned("        additional_where = ", WhereValues)
                      <=> PresentNonEmpty(ArgTable, "additional_where")
               /\ Assigned("        description     = ", DescriptionValues)
                      <=> PresentNonEmpty(ArgTable, "description")
               /\ Assigned("            operator    = ", OperatorValues)
                      <=> \E i \in 1..Len(ArgFilterCols) :
                              /\ PresentNonEmpty(ArgFilterCols[i], "operator")
                              /\ ArgFilterCols[i]["operator"] # Chars("AND")

\* C6 as stated: a config that lacks any of the five root fields is answered
\* with an error, never with a text.
C6_AnyMissingRootFieldRaises ==
    RenderDone => (Missing(config, RootKeys) => pc = "render_raised")

FilterColsComplete ==
    \A i \in 1..Len(ArgFilterCols) : "operator" \in DOMAIN ArgFilterCols[i]

\* C6, amended: a config that lacks project_id, output_datasets_config or
\* source_datasets_config is answered with KeyError and no text; a config
\* that lacks only region or view_prefix is rendered, with
\* "asia-northeast1" and "filtered_" in their place; every call either
\* raises or returns the complete text, from its first line to the closing
\* brace.
C6_MissingRequiredRaisesElseDefaults ==
    RenderDone =>
        /\ Missing(config, RequiredRootKeys) =>
               /\ pc = "render_raised"
               /\ result.raised
               /\ DOMAIN result = {"raised"}
        /\ (~Missing(config, RequiredRootKeys) /\ FilterColsComplete) =>
               pc = "render_returned"
        /\ pc = "render_returned" =>
               /\ ~result.raised
               /\ result.text = join(Chars("\n"), result.lines)
               /\ result.lines[1] = Chars("# GCP Configuration")
               /\ result.lines[2] = Chars("project_id = ") \o Q(config["project_id"])
               /\ result.lines[3] = Chars("region     = ")
                      \o Q(IF "region" \in DOMAIN config THEN config["region"]
                           ELSE Chars("asia-northeast1"))
               /\ result.lines[6] = Chars("view_prefix = ")
                      \o Q(IF "view_prefix" \in DOMAIN config THEN config["view_prefix"]
                           ELSE Chars("filtered_"))
               /\ result.lines[Len(result.lines)] = Chars("}")
               /\ \E i \in 1..Len(result.lines) :
                      result.lines[i] = Chars("source_datasets_config = {")

\* A config without region and view_prefix, rendered with the defaults.
C6_Witness ==
    /\ pc = "render_returned"
    /\ DOMAIN config = RequiredRootKeys
    /\ result.lines[3] = Chars("region     = \"asia-northeast1\"")
    /\ result.lines[6] = Chars("view_prefix = \"filtered_\"")

-----------------------------------------------------------------------------
(* Spec: a run of main, one step per input() call.                         *)

\* Result of get_input / get_yes_no on one typed line: a returned value,
\* or the prompt is shown again.
Returned(value) == [again |-> FALSE, value |-> value]
Again == [again |-> TRUE]

None == <<>>

\* One pass of the loop of get_input on the typed line raw.  A default of
\* None and an empty default are both false in "if default".
get_input(raw, required, default) ==
    LET value == strip(raw)
    IN  IF value # <<>> THEN Returned(value)
        ELSE IF default # <<>> THEN Returned(default)
        ELSE IF ~required THEN Returned(Chars(""))
        ELSE Again

\* One pass of the loop of get_yes_no on the typed line raw.
get_yes_no(raw, default) ==
    LET response == lower(strip(raw))
    IN  IF response \in {Chars("y"), Chars("yes")} THEN Returned(TRUE)
        ELSE IF response \in {Chars("n"), Chars("no")} THEN Returned(FALSE)
        ELSE IF response = <<>> THEN Returned(default)
        ELSE Again

\* values = [v.strip() for v in value.split(',') if v.strip()]
SplitValues(value) ==
    LET kept == SelectSeq(split(value, Chars(",")), LAMBDA v : strip(v) # <<>>)
    IN  [i \in 1..Len(kept) |-> strip(kept[i])]

\* client_key = client_name.lower().replace(" ", "_").replace("-", "_")
ClientKey(name) ==
    replace(replace(lower(name), Chars(" "), Chars("_")), Chars("-"), Chars("_"))

\* The labels "client" value: client_name.lower().replace(" ", "_")
ClientLabel(name) == replace(lower(name), Chars(" "), Chars("_"))

\* Faulty variant: the team label takes the client label.
OutputDatasetEntryTeamClient(key, months_back, name) ==
    [dataset_id  |-> key \o Chars("_filtered"),
     description |-> title(key) \o Chars(" filtered views for ") \o name,
     months_back |-> months_back,
     labels |-> << [k |-> Chars("environment"), v |-> Chars("production")],
                   [k |-> Chars("client"), v |-> ClientLabel(name)],
                   [k |-> Chars("team"), v |-> ClientLabel(name)] >>]

\* The value main stores in output_datasets_config[dataset_key].
OutputDatasetEntry(key, months_back, name) ==
    [dataset_id  |-> key \o Chars("_filtered"),
     description |-> title(key) \o Chars(" filtered views for ") \o name,
     months_back |-> months_back,
     labels |-> << [k |-> Chars("environment"), v |-> Chars("production")],
                   [k |-> Chars("client"), v |-> ClientLabel(name)],
                   [k |-> Chars("team"), v |-> key] >>]

DefaultRegion == Chars("asia-northeast1")
DefaultViewPrefix == Chars("filtered_")
DefaultMonthsBack == Chars("18")
DefaultOutputFile == Chars("terraform.tfvars")

\* The lines a user may type at each prompt.  Code points written as
\* numbers: 12 is a form feed, 160 a no-break space, 8195 an em space,
\* 201 the letter E with an acute accent.
ProjectIdLines ==
    {Chars(""),
     <<12>> \o Chars(" p1") \o <<160>>}

RegionLines ==
    {<<8195>>}

ViewPrefixLines ==
    {Chars("v_")}

ClientNameLines ==
    {Chars(""),
     Chars("Acme Co"),
     <<201>> \o Chars("-b")}

FilterLines(column) ==
    IF column = Chars("account_name") THEN
    {Chars(""),
     Chars("acct")}
    ELSE IF column = Chars("status") THEN
    {Chars(""),
     Chars(","),
     Chars(" active,") \o <<160>> \o Chars("done ,")}
    ELSE {Chars("")}

DatasetKeyLines ==
    {Chars(""),
     Chars("fin")}

MonthsBackLines ==
    {Chars(""),
     Chars("+0_6"),
     Chars("x")}

YesNoLines ==
    {Chars(""),
     Chars("y"),
     <<12>> \o Chars("YeS"),
     Chars("n"),
     Chars("maybe")}

AddDatasetKeyLines ==
    {Chars(""),
     Chars("fin"),
     Chars("ops")}

OutputFileLines ==
    {Chars(""),
     Chars("out.tfvars")}

Init ==
    /\ pc = "project_id"
    /\ config = <<>>
    /\ client_name = <<>>
    /\ client_key = <<>>
    /\ global_filters = <<>>
    /\ col_idx = 0
    /\ dataset_key = <<>>
    /\ output_datasets_config = EmptyDict
    /\ source_datasets_config = EmptyDict
    /\ content = <<>>
    /\ n_extra = 0
    /\ entered = <<>>
    /\ table_name = <<>>
    /\ filter_columns = <<>>
    /\ result = NoResult


\* config["project_id"] = get_input("GCP Project ID")
AskProjectId ==
    /\ pc = "project_id"
    /\ \E raw \in ProjectIdLines :
           LET r == get_input(raw, TRUE, None)
           IN  IF r.again THEN UNCHANGED vars
               ELSE /\ config' = Put(config, "project_id", r.value)
                    /\ pc' = "region"
                    /\ UNCHANGED <<client_name, client_key, global_filters, col_idx,
                                   dataset_key, output_datasets_config,
                                   source_datasets_config, content, n_extra, entered,
                                   table_name, filter_columns, result>>

\* config["region"] = get_input("Region", default="asia-northeast1")
AskRegion ==
    /\ pc = "region"
    /\ \E raw \in RegionLines :
           LET r == get_input(raw, TRUE, DefaultRegion)
           IN  /\ config' = Put(config, "region", r.value)
               /\ pc' = "view_prefix"
    /\ UNCHANGED <<client_name, client_key, global_filters, col_idx, dataset_key,
                   output_datasets_config, source_datasets_config, content, n_extra,
                   entered, table_name, filter_columns, result>>

\* config["view_prefix"] = get_input("View prefix", default="filtered_")
AskViewPrefix ==
    /\ pc = "view_prefix"
    /\ \E raw \in ViewPrefixLines :
           LET r == get_input(raw, TRUE, DefaultViewPrefix)
           IN  /\ config' = Put(config, "view_prefix", r.value)
               /\ pc' = "client_name"
    /\ UNCHANGED <<client_name, client_key, global_filters, col_idx, dataset_key,
                   output_datasets_config, source_datasets_config, content, n_extra,
                   entered, table_name, filter_columns, result>>

\* client_name = get_input("Client name"); then collect_global_filter_values
\* starts with filter_values = {}.
AskClientName ==
    /\ pc = "client_name"
    /\ \E raw \in ClientNameLines :
           LET r == get_input(raw, TRUE, None)
           IN  IF r.again THEN UNCHANGED vars
               ELSE /\ client_name' = r.value
                    /\ global_filters' = <<>>
                    /\ col_idx' = 1
                    /\ pc' = "filter"
                    /\ UNCHANGED <<config, client_key, dataset_key,
                                   output_datasets_config, source_datasets_config,
                                   content, n_extra, entered, table_name,
                                   filter_columns, result>>

\* One pass of the loop of collect_global_filter_values; after the last
\* column the mapping is returned and main computes client_key.
AskFilter ==
    /\ pc = "filter"
    /\ LET column == filter_column_names[col_idx]
       IN  \E raw \in FilterLines(column) :
               LET value == get_input(raw, FALSE, None).value
               IN  global_filters' =
                       IF value # <<>>
                       THEN Put(global_filters, column, SplitValues(value))
                       ELSE global_filters
    /\ IF col_idx < Len(filter_column_names)
       THEN /\ col_idx' = col_idx + 1
            /\ UNCHANGED <<pc, client_key>>
       ELSE /\ col_idx' = 0
            /\ client_key' = ClientKey(client_name)
            /\ pc' = "dataset_key"
    /\ UNCHANGED <<config, client_name, dataset_key, output_datasets_config,
                   source_datasets_config, content, n_extra, entered, table_name,
                   filter_columns, result>>

\* dataset_key = get_input("Dataset key", default=client_key)
AskDatasetKey ==
    /\ pc = "dataset_key"
    /\ \E raw \in DatasetKeyLines :
           LET r == get_input(raw, TRUE, client_key)
           IN  IF r.again THEN UNCHANGED vars
               ELSE /\ dataset_key' = r.value
                    /\ pc' = "months_back"
                    /\ UNCHANGED <<config, client_name, client_key, global_filters,
                                   col_idx, output_datasets_config,
                                   source_datasets_config, content, n_extra, entered,
                                   table_name, filter_columns, result>>

\* months_back = int(get_input("Months back", default="18")), then the
\* primary entry of output_datasets_config; int raises ValueError on a line
\* that is no number, which ends the program.
AskMonthsBack ==
    /\ pc = "months_back"
    /\ \E raw \in MonthsBackLines :
           LET r == get_input(raw, TRUE, DefaultMonthsBack)
           IN  IF int(r.value).raised
               THEN /\ pc' = "value_error"
                    /\ UNCHANGED <<output_datasets_config, entered>>
               ELSE /\ output_datasets_config' =
                           DictSet(output_datasets_config, dataset_key,
                                   OutputDatasetEntry(dataset_key, int(r.value).value,
                                                      client_name))
                    /\ entered' = Append(entered, [key |-> dataset_key,
                                                   months_back |-> int(r.value).value,
                                                   typed |-> strip(raw)])
                    /\ pc' = "add_another"
    /\ UNCHANGED <<config, client_name, client_key, global_filters, col_idx,
                   dataset_key, source_datasets_config, content, n_extra,
                   table_name, filter_columns, result>>

\* The config at the call of generate_tfvars_content.
FinalConfig ==
    Put(Put(config, "output_datasets_config", output_datasets_config),
        "source_datasets_config",
        generate_source_datasets_config(global_filters, client_key))

\* while get_yes_no("Add another output dataset?", default=False): on yes
\* the loop body starts; on no the config is completed, the source datasets
\* are generated and the content is rendered.
AskAddAnother ==
    /\ pc = "add_another"
    /\ \E raw \in YesNoLines :
           LET r == get_yes_no(raw, FALSE)
               final == FinalConfig
               rendered == generate_tfvars_content(final)
           IN  IF r.again THEN UNCHANGED vars
               ELSE IF r.value
               THEN /\ n_extra < MaxExtra
                    /\ pc' = "add_dataset_key"
                    /\ UNCHANGED <<config, source_datasets_config, content, result,
                                   client_name, client_key, global_filters, col_idx,
                                   dataset_key, output_datasets_config, n_extra,
                                   entered, table_name, filter_columns>>
               ELSE /\ config' = final
                    /\ source_datasets_config' = final["source_datasets_config"]
                    /\ result' = rendered
                    /\ content' = rendered.text
                    /\ pc' = "output_file"
                    /\ UNCHANGED <<client_name, client_key, global_filters, col_idx,
                                   dataset_key, output_datasets_config, n_extra,
                                   entered, table_name, filter_columns>>

\* dataset_key = get_input("Dataset key (e.g., 'analytics', 'finance')")
AskAddDatasetKey ==
    /\ pc = "add_dataset_key"
    /\ \E raw \in AddDatasetKeyLines :
           LET r == get_input(raw, TRUE, None)
           IN  IF r.again THEN UNCHANGED vars
               ELSE /\ dataset_key' = r.value
                    /\ pc' = "add_months_back"
                    /\ UNCHANGED <<config, client_name, client_key, global_filters,
                                   col_idx, output_datasets_config,
                                   source_datasets_config, content, n_extra, entered,
                                   table_name, filter_columns, result>>

\* months_back = int(get_input("Months back", default="18")), then the
\* additional entry of output_datasets_config.
AskAddMonthsBack ==
    /\ pc = "add_months_back"
    /\ \E raw \in MonthsBackLines :
           LET r == get_input(raw, TRUE, DefaultMonthsBack)
           IN  IF int(r.value).raised
               THEN /\ pc' = "value_error"
                    /\ UNCHANGED <<output_datasets_config, entered, n_extra>>
               ELSE /\ output_datasets_config' =
                           DictSet(output_datasets_config, dataset_key,
                                   OutputDatasetEntry(dataset_key, int(r.value).value,
                                                      client_name))
                    /\ entered' = Append(entered, [key |-> dataset_key,
                                                   months_back |-> int(r.value).value,
                                                   typed |-> strip(raw)])
                    /\ n_extra' = n_extra + 1
                    /\ pc' = "add_another"
    /\ UNCHANGED <<config, client_name, client_key, global_filters, col_idx,
                   dataset_key, source_datasets_config, content, table_name,
                   filter_columns, result>>

\* output_file = get_input("Output filename", default="terraform.tfvars"),
\* then the write of the file, which succeeds or ends in sys.exit(1).
AskOutputFile ==
    /\ pc = "output_file"
    /\ \E raw \in OutputFileLines, written \in BOOLEAN :
           LET r == get_input(raw, TRUE, DefaultOutputFile)
           IN  pc' = IF written THEN "done" ELSE "exit_1"
    /\ UNCHANGED <<config, client_name, client_key, global_filters, col_idx,
                   dataset_key, output_datasets_config, source_datasets_config,
                   content, n_extra, entered, table_name, filter_columns, result>>

Next ==
    \/ AskProjectId
    \/ AskRegion
    \/ AskViewPrefix
    \/ AskClientName
    \/ AskFilter
    \/ AskDatasetKey
    \/ AskMonthsBack
    \/ AskAddAnother
    \/ AskAddDatasetKey
    \/ AskAddMonthsBack
    \/ AskOutputFile

Spec == Init /\ [][Next]_vars

-----------------------------------------------------------------------------
(* Properties of a run of main, under Spec.                                *)

Rendered == pc \in {"output_file", "done", "exit_1"}

EnteredKeys == [i \in 1..Len(entered) |-> entered[i].key]

\* The distinct elements of s, each at the place of its first occurrence.
RECURSIVE FirstOccurrences(_)
FirstOccurrences(s) ==
    IF s = <<>> THEN <<>>
    ELSE LET before == FirstOccurrences(SubSeq(s, 1, Len(s) - 1))
         IN  IF s[Len(s)] \in Range(before) THEN before ELSE Append(before, s[Len(s)])

\* The last thing entered for a key.
LastEntered(key) ==
    entered[CHOOSE j \in 1..Len(entered) :
                /\ entered[j].key = key
                /\ \A m \in (j + 1)..Len(entered) : entered[m].key # key]

\* C1: in every config built by main the target_dataset_key of each of the
\* three source datasets equals the key of the first entry of
\* output_datasets_config.
C1_TargetIsPrimaryKey ==
    Rendered =>
        /\ Len(config["source_datasets_config"]) = 3
        /\ \A i \in 1..Len(config["source_datasets_config"]) :
               config["source_datasets_config"][i].v.target_dataset_key
                   = config["output_datasets_config"][1].k

\* The values a trimmed answer of the filter prompts can hold.
TrimmedFilterValues == {Chars("acct"), Chars("active"), Chars("done")}

\* C7: every column that is a key of the mapping of
\* collect_global_filter_values maps to a list of at least one value, each
\* value a non-empty, trimmed string.
C7_FilterListsNonEmpty ==
    \A c \in DOMAIN global_filters :
        /\ Len(global_filters[c]) >= 1
        /\ \A i \in 1..Len(global_filters[c]) :
               global_filters[c][i] \in TrimmedFilterValues

\* What the client label is for each client name typed: "acme_co" for
\* "Acme Co"; for the name E-acute, "-", "b" the same with a small e-acute
\* (233).
ExpectedClientLabel ==
    IF client_name = Chars("Acme Co") THEN Chars("acme_co")
    ELSE IF client_name = <<201>> \o Chars("-b") THEN <<233>> \o Chars("-b")
    ELSE Chars("?")

\* C9: every entry of output_datasets_config, the primary one and each
\* additional one, has labels with exactly the keys environment, client and
\* team, in that order, with environment = "production", client = the client
\* name in lower case with "_" for each space, team = the entry's own key;
\* its dataset_id is the key followed by "_filtered" and its months_back is
\* 18 when the user typed no value.
C9_OutputEntryShape ==
    \A i \in 1..Len(output_datasets_config) :
        LET key == output_datasets_config[i].k
            e == output_datasets_config[i].v
        IN  /\ DictKeys(e.labels)
                   = <<Chars("environment"), Chars("client"), Chars("team")>>
            /\ DictGet(e.labels, Chars("environment")) = Chars("production")
            /\ DictGet(e.labels, Chars("client")) = ExpectedClientLabel
            /\ DictGet(e.labels, Chars("team")) = key
            /\ e.dataset_id = key \o Chars("_filtered")
            /\ LastEntered(key).typed = <<>> => e.months_back = 18

\* A primary entry under its default key and an additional one, one of them
\* with the default months.
C9_Witness ==
    /\ pc = "add_another"
    /\ client_name = Chars("Acme Co")
    /\ DictKeys(output_datasets_config) = <<Chars("acme_co"), Chars("fin")>>
    /\ DictGet(output_datasets_config, Chars("fin")).months_back = 18
    /\ DictGet(output_datasets_config, Chars("acme_co")).months_back = 6
    /\ LastEntered(Chars("fin")).typed = <<>>

\* C10: once the primary output dataset is added, and after any further
\* ones, output_datasets_config holds exactly one entry per distinct key
\* entered, the primary key first; an entry entered under a key already
\* there replaces the values of that entry (the months_back of the primary
\* one too) and adds no entry and moves none.
C10_OneEntryPerKey ==
    Len(entered) >= 1 =>
        /\ Len(output_datasets_config) >= 1
        /\ DictKeys(output_datasets_config) = FirstOccurrences(EnteredKeys)
        /\ output_datasets_config[1].k = entered[1].key
        /\ \A i \in 1..Len(output_datasets_config) :
               output_datasets_config[i].v.months_back
                   = LastEntered(output_datasets_config[i].k).months_back

\* The primary key entered again as an additional dataset, with other
\* months.
C10_Witness ==
    /\ pc = "add_another"
    /\ Len(entered) = 3
    /\ entered[1].key = Chars("fin")
    /\ entered[3].key = Chars("fin")
    /\ entered[2].key = Chars("ops")
    /\ entered[1].months_back # entered[3].months_back
    /\ DictKeys(output_datasets_config) = <<Chars("fin"), Chars("ops")>>
    /\ output_datasets_config[1].v.months_back = entered[3].months_back

-----------------------------------------------------------------------------
(* The order of the rendered text, under Spec.                             *)

\* The lines of the text that belong to the set S, in the order of the text.
Pick(lines, S) == SelectSeq(lines, LAMBDA l : l \in S)

BlockHeader(indent, name) == Chars(indent) \o Q(name) \o Chars(" = {")

OutputMarker == Chars("output_datasets_config = {")
SourceMarker == Chars("source_datasets_config = {")

SourceNames == <<Chars("raw_lake"), Chars("analytics_raw"), Chars("transaction_raw")>>

AllTables ==
    <<Chars("users"), Chars("transactions"), Chars("events"), Chars("orders"),
      Chars("logs"), Chars("user_behavior"), Chars("conversion_events"),
      Chars("page_tracking"), Chars("payments"), Chars("refunds"),
      Chars("invoices")>>

ColumnLine(c) == Chars("            column_name = ") \o Q(c)

\* The columns of a table that have values, in the catalog's order.
ExpectedColumns(tname) ==
    SelectSeq(CatalogColumns(tname), LAMBDA c : HasValues(global_filters, c))

ExpectedLabelLines(key) ==
    << Chars("      environment = \"production\""),
       Chars("      client = ") \o Q(ExpectedClientLabel),
       Chars("      team = ") \o Q(key) >>

\* C8: the text rendered from the assembled config is fixed by the input
\* record: output datasets appear in the order in which their keys were
\* first entered, each with its labels environment, client, team in that
\* order; the source datasets and their tables appear in the order of the
\* predefined structure; the filter columns of each table appear in the
\* order of the catalog; and the content is that list of lines joined.
C8_TextFollowsInsertionOrder ==
    Rendered =>
        LET lines == result.lines
            keys == FirstOccurrences(EnteredKeys)
            outs == [i \in 1..Len(keys) |-> BlockHeader("  ", keys[i])]
            srcs == [i \in 1..Len(SourceNames) |-> BlockHeader("  ", SourceNames[i])]
            tabs == [i \in 1..Len(AllTables) |-> BlockHeader("      ", AllTables[i])]
            labs == Flatten([i \in 1..Len(keys) |-> ExpectedLabelLines(keys[i])])
            cols == Flatten([i \in 1..Len(AllTables) |->
                        [j \in 1..Len(ExpectedColumns(AllTables[i])) |->
                            ColumnLine(ExpectedColumns(AllTables[i])[j])]])
        IN  /\ content = result.text
            /\ Pick(lines, {OutputMarker, SourceMarker} \cup Range(outs) \cup Range(srcs))
                   = <<OutputMarker>> \o outs \o <<SourceMarker>> \o srcs
            /\ Pick(lines, Range(tabs)) = tabs
            /\ Pick(lines, Range(labs)) = labs
            /\ Pick(lines, {ColumnLine(c) : c \in ColumnNames}) = cols

\* A text with three output datasets and tables with two filter columns.
C8_Witness ==
    /\ pc = "output_file"
    /\ FirstOccurrences(EnteredKeys) = <<Chars("acme_co"), Chars("ops"), Chars("fin")>>
    /\ Len(entered) = 3
    /\ HasValues(global_filters, Chars("account_name"))
    /\ HasValues(global_filters, Chars("status"))
    /\ Len(DictGet(DictGet(config["source_datasets_config"], Chars("raw_lake")).tables,
                   Chars("users")).filter_columns) = 2

====
